---------------------------- MODULE Spec2Model ----------------------------
(***************************************************************************)
(* gdrive2kalturabulk: the page script of index.html (getDriveFiles,       *)
(* makeCsv, the shared arrays files and runs, the interval handle inter)   *)
(* and the CSV helpers of utils.js, as a state machine over the browser's  *)
(* event loop: a click, a listing response, a rejected listing and a timer *)
(* tick are tasks; promise reactions (.then callbacks) are microtasks and  *)
(* run before the next task.                                               *)
(*                                                                         *)
(* JavaScript strings are TLA+ strings; the character at 1-based position  *)
(* i of s is SubSeq(s, i, i). Only ASCII text is used, for which           *)
(* unescape(encodeURIComponent(s)) yields one byte per character.          *)
(***************************************************************************)
EXTENDS Integers, Sequences, FiniteSets, TLC

VARIABLES
    drive,      \* the Drive content: folder id -> the entries callApi returns for it
    form,       \* the values of the page's input elements
    files,      \* const files = []  (index.html:21)
    runs,       \* const runs = []   (index.html:22)
    inter,      \* let inter (index.html:68): the id of the last interval set, 0 while undefined
    calls,      \* getDriveFiles activations suspended at await callApi(query)
    jobs,       \* the microtask queue: .then callbacks of resolved promises
    timers,     \* the active setInterval timers with their closures
    downloads,  \* the calls made to downloadCSV, in order
    alerts,     \* the calls made to alert, in order (the run of each)
    started,    \* number of makeCsv invocations so far
    runStart,   \* history: per makeCsv invocation, files.length and runs.length at its start
    owners,     \* history: for each entry of runs, the visit that pushed it
    registered, \* history: every token registration [run, folder, key]
    listed,     \* history: for each run, the folders whose listing was processed
    relisted,   \* history: the visits whose listing was processed more than once
    rejected,   \* history: the visits whose listing request failed
    deregs,     \* history: the deregistrations performed
    csvCall     \* a direct call of arrayToCSVLine: its argument and, once it has
                \* returned, the line it returned

vars == <<drive, form, files, runs, inter, calls, jobs, timers, downloads, alerts,
          started, runStart, owners, registered, listed, relisted, rejected, deregs,
          csvCall>>

-----------------------------------------------------------------------------
(* Bounds of the model *)

\* makeCsv invocations (clicks on Get CSV) in one page session
MaxRuns == 2
\* listing requests that fail in one page session
MaxFailures == 1
\* calls of downloadCSV and alert in one page session (an interval that is never
\* cleared would otherwise deliver forever)
MaxDeliveries == 3
\* characters of a field handed to arrayToCSVLine directly
MaxFieldLen == 2
\* fields of an array handed to arrayToCSVLine directly
MaxFields == 2

-----------------------------------------------------------------------------
(* JavaScript values and built-ins *)

\* the value undefined; no base64 text equals it (its length is no multiple of 4)
Undefined == "undefined"

\* the printable ASCII characters of codes 32..95 and of codes 97..126 (the grave
\* accent, code 96, is not used)
AsciiLow == " !\"#$%&'()*+,-./0123456789:;<=>?@ABCDEFGHIJKLMNOPQRSTUVWXYZ[\\]^_"

AsciiHigh == "abcdefghijklmnopqrstuvwxyz{|}~"

CharAt(s, i) == SubSeq(s, i, i)

\* String.prototype.charCodeAt for the characters used (the line feed is 10)
CharCode(c) ==
    IF c = "\n" THEN 10
    ELSE IF \E n \in 1..Len(AsciiLow) : CharAt(AsciiLow, n) = c
    THEN 31 + (CHOOSE n \in 1..Len(AsciiLow) : CharAt(AsciiLow, n) = c)
    ELSE 96 + (CHOOSE n \in 1..Len(AsciiHigh) : CharAt(AsciiHigh, n) = c)

\* String.fromCharCode
FromCharCode(n) ==
    IF n = 10 THEN "\n"
    ELSE IF n <= 95 THEN CharAt(AsciiLow, n - 31) ELSE CharAt(AsciiHigh, n - 96)

\* String.prototype.toUpperCase on one character
ToUpperCase(c) ==
    LET n == CharCode(c)
    IN  IF n >= 97 /\ n <= 122 THEN FromCharCode(n - 32) ELSE c

\* String.prototype.indexOf(t): 0-based index of the first occurrence, or -1
StrIndexOf(s, t) ==
    LET hits == {i \in 0..(Len(s) - Len(t)) : SubSeq(s, i + 1, i + Len(t)) = t}
    IN  IF hits = {} THEN -1 ELSE CHOOSE i \in hits : \A j \in hits : i <= j

\* String.prototype.includes(t)
Includes(s, t) == StrIndexOf(s, t) # -1

\* String.prototype.slice(from) for 0 <= from
Slice(s, from) == SubSeq(s, from + 1, Len(s))

\* String.prototype.indexOf(t, from): the first occurrence at index from or later
StrIndexOfFrom(s, t, from) ==
    LET hits == {i \in from..(Len(s) - Len(t)) : SubSeq(s, i + 1, i + Len(t)) = t}
    IN  IF hits = {} THEN -1 ELSE CHOOSE i \in hits : \A j \in hits : i <= j

\* the parts of s from index from on
RECURSIVE SplitFrom(_, _, _)
SplitFrom(s, sep, from) ==
    LET i == StrIndexOfFrom(s, sep, from)
    IN  IF i = -1 THEN <<SubSeq(s, from + 1, Len(s))>>
        ELSE <<SubSeq(s, from + 1, i)>> \o SplitFrom(s, sep, i + 1)

\* String.prototype.split(sep) for a one-character separator: always at least one part
Split(s, sep) == SplitFrom(s, sep, 0)

\* Array.prototype.join(sep)
RECURSIVE Join(_, _)
Join(arr, sep) ==
    IF Len(arr) = 0 THEN ""
    ELSE IF Len(arr) = 1 THEN arr[1]
    ELSE arr[1] \o sep \o Join(Tail(arr), sep)

\* Array.prototype.indexOf(x): 0-based index of the first element equal to x, or -1
IndexOf(arr, x) ==
    LET hits == {i \in 1..Len(arr) : arr[i] = x}
    IN  IF hits = {} THEN -1 ELSE (CHOOSE i \in hits : \A j \in hits : i <= j) - 1

\* where Array.prototype.splice(start, ...) starts: a negative start counts from the end
SpliceStart(arr, start) ==
    IF start < 0 THEN (IF Len(arr) + start < 0 THEN 0 ELSE Len(arr) + start)
    ELSE IF start > Len(arr) THEN Len(arr) ELSE start

\* a splice that removes nothing (a deleteCount of 0)
SpliceNothing(arr, start, deleteCount) == arr

\* the array after Array.prototype.splice(start, deleteCount)
Splice(arr, start, deleteCount) ==
    LET s == SpliceStart(arr, start)
        d == IF deleteCount < 0 THEN 0
             ELSE IF deleteCount > Len(arr) - s THEN Len(arr) - s ELSE deleteCount
    IN  SubSeq(arr, 1, s) \o SubSeq(arr, s + d + 1, Len(arr))

\* the base64 alphabet of btoa
B64Alphabet == "ABCDEFGHIJKLMNOPQRSTUVWXYZabcdefghijklmnopqrstuvwxyz0123456789+/"

B64Char(n) == CharAt(B64Alphabet, n + 1)

\* the bytes of unescape(encodeURIComponent(s)): the UTF-8 encoding, one byte per
\* ASCII character
Utf8Bytes(s) == [i \in 1..Len(s) |-> CharCode(CharAt(s, i))]

\* btoa on a byte sequence: 3 bytes become 4 characters, the equals sign pads the last group
RECURSIVE Base64From(_, _)
Base64From(b, i) ==
    IF i > Len(b) THEN ""
    ELSE IF i = Len(b) THEN
        B64Char(b[i] \div 4) \o B64Char((b[i] % 4) * 16) \o "=="
    ELSE IF i + 1 = Len(b) THEN
        B64Char(b[i] \div 4) \o B64Char((b[i] % 4) * 16 + b[i + 1] \div 16)
            \o B64Char((b[i + 1] % 16) * 4) \o "="
    ELSE
        B64Char(b[i] \div 4) \o B64Char((b[i] % 4) * 16 + b[i + 1] \div 16)
            \o B64Char((b[i + 1] % 16) * 4 + b[i + 2] \div 64) \o B64Char(b[i + 2] % 64)
            \o Base64From(b, i + 3)

Base64(b) == Base64From(b, 1)

\* btoa(unescape(encodeURIComponent(s)))
Btoa(s) == Base64(Utf8Bytes(s))

-----------------------------------------------------------------------------
(* utils.js *)

\* capitalizeFLetter(word)
capitalizeFLetter(word) == ToUpperCase(CharAt(word, 1)) \o Slice(word, 1)

\* escapeDoubleQuotes(str): every double quote of str is replaced by two
RECURSIVE ReplaceQuotesFrom(_, _)
ReplaceQuotesFrom(str, i) ==
    IF i > Len(str) THEN ""
    ELSE (IF CharAt(str, i) = "\"" THEN "\"\"" ELSE CharAt(str, i))
            \o ReplaceQuotesFrom(str, i + 1)

\* a replacement that leaves every double quote single
KeepDoubleQuotes(str) == str

escapeDoubleQuotes(str) == ReplaceQuotesFrom(str, 1)

\* the callback of array.map in arrayToCSVLine; every value of a record is a string
CsvValue(value) ==
    IF Includes(value, ",") \/ Includes(value, "\n")
    THEN "\"" \o escapeDoubleQuotes(value) \o "\""
    ELSE value

\* arrayToCSVLine(array)
arrayToCSVLine(array) ==
    Join([i \in 1..Len(array) |-> CsvValue(array[i])], ",")

-----------------------------------------------------------------------------
(* The Drive contents and form values a page session is checked on *)

FolderMime == "application/vnd.google-apps.folder"

Folder(id, name) == [id |-> id, name |-> name, mimeType |-> FolderMime]

\* a file entry whose description is absent from the response
File(id, name, mimeType, owner) ==
    [id |-> id, name |-> name, mimeType |-> mimeType,
     owners |-> <<[displayName |-> owner, emailAddress |-> owner \o "@x.io"]>>]

FileWithDescription(id, name, mimeType, owner, description) ==
    [id |-> id, name |-> name, mimeType |-> mimeType,
     owners |-> <<[displayName |-> owner, emailAddress |-> owner \o "@x.io"]>>,
     description |-> description]

\* root R holds folder A and an image, A holds a video
DriveScenario ==
    [R  |-> <<Folder("F1", "A"), File("I1", "img.jpg", "image/jpeg", "Bob")>>,
     F1 |-> <<File("I2", "clip.mp4", "video/mp4", "Ann")>>]

\* two sibling folders of the same name
DriveTwins ==
    [R  |-> <<Folder("F1", "A"), Folder("F2", "A")>>,
     F1 |-> <<File("I1", "a.mp3", "audio/mpeg", "Bob")>>,
     F2 |-> <<File("I2", "b.mp3", "audio/mpeg", "Ann")>>]

\* two levels of folders; F2 and F3 have the same name under different parents
DriveDeep ==
    [R  |-> <<Folder("F1", "A"), Folder("F3", "B")>>,
     F1 |-> <<Folder("F2", "B"), File("I1", "x.png", "image/png", "Bob")>>,
     F2 |-> <<File("I2", "y.mp4", "video/mp4", "Ann")>>,
     F3 |-> << >>]

\* a chain of three folders, the last two of the same name
DriveChain ==
    [R  |-> <<Folder("F1", "A")>>,
     F1 |-> <<Folder("F2", "B")>>,
     F2 |-> <<File("I1", "deep.jpg", "image/jpeg", "Bob"), Folder("F3", "B")>>,
     F3 |-> <<File("I2", "deeper.jpg", "image/jpeg", "Bob")>>]

\* three sibling folders of different names
DriveWide ==
    [R  |-> <<Folder("F1", "A"), File("I1", "top.mp4", "video/mp4", "Ann"),
              Folder("F2", "B"), Folder("F3", "C")>>,
     F1 |-> <<File("I2", "a.png", "image/png", "Bob")>>,
     F2 |-> << >>,
     F3 |-> <<File("I3", "c.mp3", "audio/mpeg", "Ann")>>]

\* an empty Drive
DriveEmpty == [R |-> << >>]

\* no media at all
DriveDocs ==
    [R  |-> <<File("D1", "doc.pdf", "application/pdf", "Bob"), Folder("F1", "A")>>,
     F1 |-> << >>]

\* names and descriptions with commas and double quotes, and mime types that
\* contain a media prefix after their first character
DriveOdd ==
    [R  |-> <<FileWithDescription("I1", "a,b.png", "image/png", "Bob", "say \"hi\", ok"),
              File("I2", "\"q.jpg", "image/jpeg", "Ann"),
              File("D1", "notes", "text/x-audio/z", "Ann")>>]

\* the values of the page's inputs; metadata_fields is the comma separated list
Form(metadata_fields) ==
    [drive_id |-> "R", drive_name |-> "Drive", root_category |-> "Cat",
     metadata_profile_id |-> "42", owner_id |-> "owner",
     metadata_fields |-> metadata_fields]

\* the page sessions checked: a Drive content with the form filled in for it, the
\* metadata field list holding no name, one name or two names
Sessions ==
    {[drive |-> DriveScenario, form |-> Form("f1")],
     [drive |-> DriveTwins,    form |-> Form("")],
     [drive |-> DriveDeep,     form |-> Form("f1,f2")],
     [drive |-> DriveChain,    form |-> Form("f1")],
     [drive |-> DriveWide,     form |-> Form("")],
     [drive |-> DriveEmpty,    form |-> Form("f1")],
     [drive |-> DriveDocs,     form |-> Form("f1")],
     [drive |-> DriveOdd,      form |-> Form("")],
     [drive |-> DriveOdd,      form |-> Form("f1,f2")]}

-----------------------------------------------------------------------------
(* index.html: callApi and getDriveFiles *)

\* the query getDriveFiles builds for a folder
Query(driveId) == "'" \o driveId \o "' in parents"

\* callApi(query): the files of the response, the direct children of the folder
callApi(query) == drive[CHOOSE f \in DOMAIN drive : Query(f) = query]

\* a call getDriveFiles(...args) suspended at its await: the parameters bound
\* positionally (folderPath defaults to the empty string), with the reaction
\* attached to its promise by the caller
GetDriveFiles(args, cont) ==
    [driveId |-> args[1], driveName |-> args[2], folderName |-> args[3],
     categoryName |-> args[4], metadataProfileId |-> args[5], ownerId |-> args[6],
     folderPath |-> IF Len(args) >= 7 THEN args[7] ELSE "",
     cont |-> cont]

\* the value the promise of getDriveFiles is fulfilled with: the function body has
\* no return statement of its own (the return of line 64 belongs to the forEach
\* callback, whose result forEach discards)
GetDriveFilesResult(c) == Undefined

\* the media test of the else-if branch
IsMedia(mimeType) ==
    \/ StrIndexOf(mimeType, "image/") > -1
    \/ StrIndexOf(mimeType, "audio/") > -1
    \/ StrIndexOf(mimeType, "video/") > -1

\* file.description ?? ''
DescriptionOf(file) ==
    IF "description" \in DOMAIN file THEN file.description ELSE ""

\* the array pushed to files for a media entry
Record(file, c) ==
    LET fileId == file.id
        fileName == file.name
        media_type == capitalizeFLetter(Split(file.mimeType, "/")[1])
        user_name == file.owners[1].displayName
        user_email == file.owners[1].emailAddress
        description == DescriptionOf(file)
        download_url == "https://drive.google.com/uc?export=download&id=" \o fileId
    IN  <<fileName,
          "By " \o user_name \o " in " \o c.folderName \o ". \n" \o description,
          "",
          download_url,
          fileId,
          media_type,
          c.categoryName \o ">" \o c.driveName \o " " \o c.folderPath,
          user_email,
          c.ownerId,
          c.metadataProfileId>>

\* a registration that keeps one entry per distinct token, as a set would
RegisterTokenAsSet(tokens, key) ==
    IF \E i \in 1..Len(tokens) : tokens[i] = key THEN tokens ELSE Append(tokens, key)

\* runs.push(key)
RegisterToken(tokens, key) == Append(tokens, key)

\* one call of the forEach callback of getDriveFiles, on the state st it reads and
\* writes: the arrays runs and files, the calls it starts, and the history
ProcessFile(st, file, c) ==
    LET mimeType == file.mimeType
        fileId == file.id
        fileName == file.name
    IN  IF mimeType = FolderMime THEN
            LET new_folder_path == c.folderPath \o " - " \o fileName
                key == Btoa(new_folder_path)
                visit == [run |-> c.cont.run, folder |-> fileId]
                \* runs after line 35, as the call of line 36 finds it
                tokens == RegisterToken(st.runs, key)
                nested == GetDriveFiles(
                    <<fileId, c.driveName, fileName, c.categoryName,
                      c.metadataProfileId, new_folder_path>>,
                    [then |-> "deregister", run |-> c.cont.run, folder |-> fileId,
                     key |-> key,
                     registeredFirst |-> \E i \in 1..Len(tokens) : tokens[i] = key])
            IN  [st EXCEPT !.runs = tokens,
                           !.owners = Append(@, visit),
                           !.registered = @ \cup {[run |-> visit.run,
                                                   folder |-> fileId, key |-> key]},
                           !.calls = @ \cup {nested}]
        ELSE IF IsMedia(mimeType) THEN
            [st EXCEPT !.files = Append(@, Record(file, c))]
        ELSE st

\* the forEach from the entry of position i on
RECURSIVE ForEachFrom(_, _, _, _)
ForEachFrom(st, localfiles, i, c) ==
    IF i > Len(localfiles) THEN st
    ELSE ForEachFrom(ProcessFile(st, localfiles[i], c), localfiles, i + 1, c)

\* localfiles.forEach(...)
ForEach(st, localfiles, c) == ForEachFrom(st, localfiles, 1, c)

-----------------------------------------------------------------------------
(* index.html: the CSV text built by the interval callback of makeCsv *)

\* the byte-order mark U+FEFF, one code unit, written as its escape
BOM == "\\uFEFF"

headerLine == "*title,description,tags,url,referenceId,contentType,category,creatorId,ownerId,metadataProfileId"

\* for(i=0;i<fieldsCount;i++) csvData += ','
RECURSIVE Commas(_)
Commas(n) == IF n <= 0 THEN "" ELSE "," \o Commas(n - 1)

\* a data line without the newline that ends it
DataLineUnterminated(f, fieldsCount) == arrayToCSVLine(f) \o Commas(fieldsCount)

\* what one call of the files.forEach callback appends to csvData
DataLine(f, fieldsCount) == arrayToCSVLine(f) \o Commas(fieldsCount) \o "\n"

RECURSIVE DataLines(_, _)
DataLines(fs, fieldsCount) ==
    IF Len(fs) = 0 THEN ""
    ELSE DataLine(Head(fs), fieldsCount) \o DataLines(Tail(fs), fieldsCount)

\* the header as the second assignment to csvData builds it
HeaderText(metadataFieldNames) ==
    LET names == Split(metadataFieldNames, ",")
        fields == [i \in 1..Len(names) |-> "metadataField_" \o names[i]]
    IN  headerLine \o "," \o Join(fields, ",") \o "\n"

\* csvData when it is handed to downloadCSV: the first assignment (the mark) is
\* overwritten by the second (the header), the data lines are appended
BuildCsv(metadataFieldNames, fieldsCount, fs) ==
    LET csvData0 == BOM
        csvData1 == HeaderText(metadataFieldNames)
    IN  csvData1 \o DataLines(fs, fieldsCount)

-----------------------------------------------------------------------------
(* The page session *)

\* the nested visits whose promise is not resolved: suspended, or rejected
Unresolved ==
    {[run |-> c.cont.run, folder |-> c.driveId] :
        c \in {d \in calls : d.cont.then = "deregister"}}
    \cup {[run |-> v.run, folder |-> v.folder] : v \in {w \in rejected : w.nested}}

\* no call of arrayToCSVLine outside makeCsv
NoCall == [array |-> << >>, returned |-> FALSE, line |-> ""]

\* the page after loading: the arrays empty, nothing in flight
Loaded ==
    /\ files = << >>
    /\ runs = << >>
    /\ inter = 0
    /\ calls = {}
    /\ jobs = << >>
    /\ timers = {}
    /\ downloads = << >>
    /\ alerts = << >>
    /\ started = 0
    /\ runStart = << >>
    /\ owners = << >>
    /\ registered = {}
    /\ listed = {}
    /\ relisted = {}
    /\ rejected = {}
    /\ deregs = {}

Init ==
    /\ \E s \in Sessions : drive = s.drive /\ form = s.form
    /\ Loaded
    /\ csvCall = NoCall

\* a click on Get CSV: makeCsv() up to the call of getDriveFiles for the root, which
\* suspends at its listing request
MakeCsv ==
    /\ jobs = << >>
    /\ started < MaxRuns
    /\ LET driveId == form.drive_id
           driveName == form.drive_name
           rootCategory == form.root_category
           metadataProfileId == form.metadata_profile_id
           ownerId == form.owner_id
           metadataFieldNames == form.metadata_fields
           fieldsCount == Len(Split(metadataFieldNames, ","))
       IN  calls' = calls \cup {GetDriveFiles(
               <<driveId, driveName, "", rootCategory \o ">site>channels",
                 metadataProfileId, ownerId, "">>,
               [then |-> "poll", run |-> started + 1,
                metadataFieldNames |-> metadataFieldNames,
                fieldsCount |-> fieldsCount])}
    /\ started' = started + 1
    /\ runStart' = Append(runStart, [files |-> Len(files), runs |-> Len(runs)])
    /\ UNCHANGED <<csvCall, drive, form, files, runs, inter, jobs, timers, downloads, alerts,
                   owners, registered, listed, relisted, rejected, deregs>>

\* the listing request of call c succeeds: getDriveFiles resumes after its await,
\* runs the forEach over the entries and returns; its promise is fulfilled and the
\* reaction attached to it is queued
ListingResponse(c) ==
    /\ jobs = << >>
    /\ c \in calls
    /\ LET visit == [run |-> c.cont.run, folder |-> c.driveId]
           localfiles == callApi(Query(c.driveId))
       IN  \E st \in {ForEach([runs |-> runs, owners |-> owners, files |-> files,
                               registered |-> registered, calls |-> {}], localfiles, c)} :
           /\ runs' = st.runs
           /\ owners' = st.owners
           /\ files' = st.files
           /\ registered' = st.registered
           /\ calls' = (calls \ {c}) \cup st.calls
           /\ jobs' = Append(jobs, c.cont @@ [res |-> GetDriveFilesResult(c)])
           /\ listed' = listed \cup {visit}
           /\ relisted' = IF visit \in listed THEN relisted \cup {visit} ELSE relisted
    /\ UNCHANGED <<csvCall, drive, form, inter, timers, downloads, alerts, started, runStart,
                   rejected, deregs>>

\* the reactions a rejected promise would queue had the caller attached its
\* callback for both outcomes (as .finally does)
RejectionJobsAsFinally(c) == <<c.cont @@ [res |-> Undefined]>>

\* the reactions queued when the promise of call c is rejected: the callers attach
\* a fulfilment reaction only (.then with one argument), so none
RejectionJobs(c) == << >>

\* the listing request of call c fails (fetch rejects, or the response carries no
\* files array and forEach throws): the promise of getDriveFiles is rejected
ListingFailure(c) ==
    /\ jobs = << >>
    /\ c \in calls
    /\ Cardinality(rejected) < MaxFailures
    /\ calls' = calls \ {c}
    /\ jobs' = jobs \o RejectionJobs(c)
    /\ rejected' = rejected \cup {[run |-> c.cont.run, folder |-> c.driveId,
                                   nested |-> c.cont.then = "deregister"]}
    /\ UNCHANGED <<csvCall, drive, form, files, runs, inter, timers, downloads, alerts, started,
                   runStart, owners, registered, listed, relisted, deregs>>

\* the reaction of a nested visit (lines 36-41): remove one entry of runs
Deregister ==
    /\ jobs # << >>
    /\ Head(jobs).then = "deregister"
    /\ LET job == Head(jobs)
           res == job.res
           index == IndexOf(runs, res)
           at == SpliceStart(runs, index) + 1
       IN  /\ runs' = Splice(runs, index, 1)
           /\ owners' = Splice(owners, index, 1)
           /\ deregs' = deregs \cup
                {[run |-> job.run, folder |-> job.folder, key |-> job.key, res |-> res,
                  before |-> Len(runs),
                  removed |-> IF at <= Len(runs) THEN runs[at] ELSE Undefined,
                  removedOf |-> IF at <= Len(owners) THEN owners[at].folder
                                ELSE Undefined]}
    /\ jobs' = Tail(jobs)
    /\ UNCHANGED <<csvCall, drive, form, files, inter, calls, timers, downloads, alerts, started,
                   runStart, registered, listed, relisted, rejected>>

\* the reaction of the root visit (lines 78-79, 103): inter = setInterval(..., 1000)
StartPolling ==
    /\ jobs # << >>
    /\ Head(jobs).then = "poll"
    /\ LET job == Head(jobs)
       IN  /\ timers' = timers \cup {[id |-> job.run,
                                      metadataFieldNames |-> job.metadataFieldNames,
                                      fieldsCount |-> job.fieldsCount]}
           /\ inter' = job.run
    /\ jobs' = Tail(jobs)
    /\ UNCHANGED <<csvCall, drive, form, files, runs, calls, downloads, alerts, started,
                   runStart, owners, registered, listed, relisted, rejected, deregs>>

\* a clearInterval that stops no timer
ClearIntervalNothing(active, id) == active

\* clearInterval(id): the timer of that id is no longer active; an id that names
\* no active timer has no effect
ClearInterval(active, id) == {u \in active : u.id # id}

\* one tick of interval t (lines 79-103)
Tick(t) ==
    /\ jobs = << >>
    /\ t \in timers
    /\ IF Len(runs) = 0 THEN
           /\ Len(downloads) + Len(alerts) < MaxDeliveries
           /\ timers' = ClearInterval(timers, inter)
           /\ IF Len(files) = 0 THEN
                  /\ alerts' = Append(alerts, t.id)
                  /\ UNCHANGED downloads
              ELSE
                  /\ downloads' = Append(downloads,
                        [content |-> BuildCsv(t.metadataFieldNames, t.fieldsCount, files),
                         fileName |-> "bulk_upload.csv",
                         run |-> t.id,
                         records |-> files,
                         listed |-> listed,
                         unresolved |-> Unresolved])
                  /\ UNCHANGED alerts
       ELSE UNCHANGED <<timers, downloads, alerts>>
    /\ UNCHANGED <<csvCall, drive, form, files, runs, inter, calls, jobs, started, runStart,
                   owners, registered, listed, relisted, rejected, deregs>>

Next ==
    \/ MakeCsv
    \/ \E c \in calls : ListingResponse(c)
    \/ \E c \in calls : ListingFailure(c)
    \/ Deregister
    \/ StartPolling
    \/ \E t \in timers : Tick(t)

Spec == Init /\ [][Next]_vars

\* one page session with a single click on Get CSV
MakeCsvOnce == started = 0 /\ MakeCsv

NextSingle ==
    \/ MakeCsvOnce
    \/ \E c \in calls : ListingResponse(c)
    \/ \E c \in calls : ListingFailure(c)
    \/ Deregister
    \/ StartPolling
    \/ \E t \in timers : Tick(t)

SingleRun == Init /\ [][NextSingle]_vars

\* a single run in which every listing request succeeds; the event loop runs every
\* queued reaction, delivers every response and keeps ticking an active interval
NextLive ==
    \/ MakeCsvOnce
    \/ \E c \in calls : ListingResponse(c)
    \/ Deregister
    \/ StartPolling
    \/ \E t \in timers : Tick(t)

LiveSpec ==
    /\ Init
    /\ [][NextLive]_vars
    /\ WF_vars(\E c \in calls : ListingResponse(c))
    /\ WF_vars(Deregister)
    /\ WF_vars(StartPolling)
    /\ WF_vars(\E t \in timers : Tick(t))

-----------------------------------------------------------------------------
(* utils.js: arrayToCSVLine called on its own *)

\* the characters the fields are made of: a letter, the comma, the double quote
\* and the line feed
FieldChars == {"a", ",", "\"", "\n"}

\* the strings of at most n characters
RECURSIVE Strings(_)
Strings(n) ==
    IF n = 0 THEN {""}
    ELSE Strings(n - 1) \cup {s \o c : s \in Strings(n - 1), c \in FieldChars}

\* the arrays of strings handed to arrayToCSVLine
Arrays == UNION {[1..n -> Strings(MaxFieldLen)] : n \in 0..MaxFields}

CsvInit ==
    /\ drive = DriveEmpty /\ form = Form("")
    /\ Loaded
    /\ csvCall \in {[array |-> a, returned |-> FALSE, line |-> ""] : a \in Arrays}

\* arrayToCSVLine(array) returns
ArrayToCSVLine ==
    /\ ~csvCall.returned
    /\ csvCall' = [csvCall EXCEPT !.returned = TRUE,
                                  !.line = arrayToCSVLine(csvCall.array)]
    /\ UNCHANGED <<drive, form, files, runs, inter, calls, jobs, timers, downloads,
                   alerts, started, runStart, owners, registered, listed, relisted,
                   rejected, deregs>>

CsvLineSpec == CsvInit /\ [][ArrayToCSVLine]_vars

-----------------------------------------------------------------------------
(* What the claims speak of *)

\* the folders of the tree: the root and every folder below it
Folders == DOMAIN drive

\* the entries of the whole tree
Entries == UNION {{drive[f][i] : i \in 1..Len(drive[f])} : f \in Folders}

\* the ids of the media entries of the whole tree
MediaIds == {e.id : e \in {x \in Entries : x.mimeType # FolderMime /\ IsMedia(x.mimeType)}}

\* the entries a sequence of records was made from (referenceId is the fifth field)
RecordIds(fs) == {fs[i][5] : i \in 1..Len(fs)}

\* every folder of the tree has had its listing processed in run r, as of history l
AllListed(l, r) == \A f \in Folders : [run |-> r, folder |-> f] \in l

\* no listing request has failed
NoFailure == rejected = {}

\* the root listing of run r has been processed
RootListed(r) == [run |-> r, folder |-> form.drive_id] \in listed

\* two visits of run r were registered with equal tokens
Collision(r) ==
    \E a, b \in registered :
        a.run = r /\ b.run = r /\ a.folder # b.folder /\ a.key = b.key

\* the number of line feeds in a text
Newlines(s) == Cardinality({i \in 1..Len(s) : CharAt(s, i) = "\n"})

\* the number of line feeds inside the fields of a sequence of records
RECURSIVE EmbeddedNewlines(_)
EmbeddedNewlines(fs) ==
    IF Len(fs) = 0 THEN 0
    ELSE Newlines(Join(Head(fs), "")) + EmbeddedNewlines(Tail(fs))

\* a CSV reader: the number of top-level fields of each row of a text. A double
\* quote opens or closes a quoted field, so a character is outside quotes when an
\* even number of double quotes precedes it; a comma outside quotes ends a field
\* and a line feed outside quotes ends a row
FieldCounts(text) ==
    LET quotes == {i \in 1..Len(text) : CharAt(text, i) = "\""}
        Outside(i) == Cardinality({q \in quotes : q < i}) % 2 = 0
        rowEnds == {i \in 1..Len(text) : CharAt(text, i) = "\n" /\ Outside(i)}
        commas == {i \in 1..Len(text) : CharAt(text, i) = "," /\ Outside(i)}
        RowEnd(k) == IF k = 0 THEN 0
                     ELSE CHOOSE e \in rowEnds : Cardinality({x \in rowEnds : x < e}) = k - 1
    IN  [k \in 1..Cardinality(rowEnds) |->
            1 + Cardinality({c \in commas : RowEnd(k - 1) < c /\ c < RowEnd(k)})]

\* the number of names in the metadata field list: none when the input is empty
ConfiguredFieldCount(metadata_fields) ==
    IF metadata_fields = "" THEN 0 ELSE Len(Split(metadata_fields, ","))

\* the folder that holds the entry of the given id
ParentOf(id) == CHOOSE f \in Folders : \E i \in 1..Len(drive[f]) : drive[f][i].id = id

\* the name of the folder of the given id
NameOf(id) ==
    LET f == ParentOf(id)
    IN  drive[f][CHOOSE i \in 1..Len(drive[f]) : drive[f][i].id = id].name

\* the chain of folder names from the drive root down to folder f, each preceded by
\* the separator
RECURSIVE Chain(_)
Chain(f) ==
    IF f = form.drive_id THEN ""
    ELSE Chain(ParentOf(f)) \o " - " \o NameOf(f)

-----------------------------------------------------------------------------
(* The claims *)

\* C1: in a single run in which no listing request fails, whenever a CSV has been
\* handed to downloadCSV, at that moment no subfolder visit was unresolved, every
\* folder of the tree had had its listing processed and every media entry of the
\* whole tree had its record in files.
C1_CsvAfterWholeTree ==
    (started = 1 /\ NoFailure) =>
        \A i \in 1..Len(downloads) :
            /\ downloads[i].unresolved = {}
            /\ AllListed(downloads[i].listed, downloads[i].run)
            /\ MediaIds \subseteq RecordIds(downloads[i].records)

\* C1 witness: a CSV was delivered for a tree with nested folders.
C1_Witness ==
    /\ started = 1 /\ NoFailure
    /\ Len(downloads) = 1
    /\ Cardinality(Folders) >= 4
    /\ Cardinality(MediaIds) >= 2

Terminated ==
    /\ runs = << >>
    /\ timers = {}
    /\ inter = 1
    /\ Len(downloads) + Len(alerts) = 1

\* C2: under fair scheduling and with every listing request succeeding, a single
\* run eventually reaches the state where runs is empty, its interval is cleared
\* and either the CSV was handed to downloadCSV or the notice was raised.
C2_Termination == (started = 1) ~> Terminated

\* C2 witness: a run over a tree with nested folders has terminated with a CSV.
C2_Witness ==
    /\ Terminated
    /\ Len(downloads) = 1
    /\ Cardinality(Folders) >= 4

C4_RemovesOwnToken ==
    \A g \in deregs :
        /\ g.res = g.key
        /\ g.removed = g.key
        /\ g.removedOf = g.folder

\* C5 as stated: when two visits of a run are registered with equal tokens, the
\* CSV is generated while a subfolder visit is unresolved or a record is missing.
C5_Original ==
    (started = 1 /\ NoFailure) =>
        \A i \in 1..Len(downloads) :
            Collision(downloads[i].run) =>
                \/ downloads[i].unresolved # {}
                \/ ~(MediaIds \subseteq RecordIds(downloads[i].records))

\* C5 amended: also when two visits of a run are registered with equal tokens,
\* every deregistration removes exactly one entry, so runs holds one entry per
\* unresolved visit and the CSV is generated only when no subfolder visit is
\* unresolved, with the records of the whole tree.
C5_CollisionDoesNotTruncate ==
    (started = 1 /\ NoFailure /\ Collision(1)) =>
        /\ jobs = << >> => Len(runs) = Cardinality(Unresolved)
        /\ \A g \in deregs : g.before >= 1
        /\ \A i \in 1..Len(downloads) :
            /\ downloads[i].unresolved = {}
            /\ MediaIds \subseteq RecordIds(downloads[i].records)

\* C5 witness: a CSV was delivered in a run with two equal tokens.
C5_Witness ==
    /\ started = 1 /\ NoFailure /\ Collision(1)
    /\ Len(downloads) = 1

\* C6 as stated: in every state of a run without failing requests, runs is empty
\* if and only if every folder has been visited exactly once.
C6_Original ==
    (started = 1 /\ NoFailure) =>
        (runs = << >> <=> (AllListed(listed, 1) /\ relisted = {}))

\* C6 amended: no folder is ever visited twice, and in every state in which the
\* polling check can run (the root listing processed, no reaction queued), runs is
\* empty if and only if every folder has been visited.
C6_EmptyIffAllVisited ==
    (started = 1 /\ NoFailure) =>
        /\ relisted = {}
        /\ (RootListed(1) /\ jobs = << >>) => (runs = << >> <=> AllListed(listed, 1))

\* C6 witness: the polling check can run while a folder is still to be visited.
C6_Witness ==
    /\ started = 1 /\ NoFailure
    /\ RootListed(1) /\ jobs = << >>
    /\ timers # {}
    /\ runs # << >>
    /\ ~AllListed(listed, 1)

\* C7: the category of every record is the category context, the drive name and
\* the chain of folder names from the drive root to the folder that holds the
\* entry, each name preceded by the separator.
C7_CategoryIsFullChain ==
    \A i \in 1..Len(files) :
        files[i][7] = form.root_category \o ">site>channels" \o ">" \o form.drive_name
                        \o " " \o Chain(ParentOf(files[i][5]))

\* C8: files and runs are empty at the start of every makeCsv run.
C8_EmptyAtRunStart ==
    \A r \in 1..Len(runStart) : runStart[r].files = 0 /\ runStart[r].runs = 0

\* C9 as stated: with N >= 1 media entries and no failing request, the run creates
\* one record per media entry and the CSV text has exactly N + 1 lines.
C9_Original ==
    (started = 1 /\ NoFailure) =>
        \A i \in 1..Len(downloads) :
            /\ Len(downloads[i].records) = Cardinality(MediaIds)
            /\ RecordIds(downloads[i].records) = MediaIds
            /\ Newlines(downloads[i].content) = Cardinality(MediaIds) + 1

\* C9 amended: the run creates exactly one record per media entry, and the CSV
\* text is the header line followed by one newline-terminated row per record;
\* a row spans more than one line of text, because the description of every record
\* holds a line feed: the text has N + 1 line feeds plus those inside the fields
\* of the records, at least 2N + 1.
C9_OneRowPerMediaEntry ==
    (started = 1 /\ NoFailure) =>
        \A i \in 1..Len(downloads) :
            LET d == downloads[i]
                n == Cardinality(MediaIds)
            IN  /\ n >= 1
                /\ Len(d.records) = n
                /\ RecordIds(d.records) = MediaIds
                /\ Newlines(d.content) = n + 1 + EmbeddedNewlines(d.records)
                /\ Newlines(d.content) >= 2 * n + 1

\* C9 witness: a CSV of three records was delivered.
C9_Witness ==
    /\ started = 1 /\ NoFailure
    /\ Len(downloads) = 1
    /\ Cardinality(MediaIds) = 3
    /\ Len(downloads[1].records) = 3

\* C10: the header and every data row of a generated CSV have 10 plus the
\* configured number of metadata fields top-level fields.
C10_ColumnCount ==
    \A i \in 1..Len(downloads) :
        LET counts == FieldCounts(downloads[i].content)
        IN  /\ Len(counts) = Len(downloads[i].records) + 1
            /\ \A k \in 1..Len(counts) :
                counts[k] = 10 + ConfiguredFieldCount(form.metadata_fields)


\* C11: every CSV text handed to downloadCSV begins with the byte-order mark,
\* immediately followed by the fixed header line.
C11_BeginsWithMark ==
    \A i \in 1..Len(downloads) :
        LET content == downloads[i].content
            lead == BOM \o headerLine
        IN  /\ Len(content) >= Len(lead)
            /\ SubSeq(content, 1, Len(lead)) = lead


\* C12: under fair scheduling and with every listing request succeeding, once the
\* traversal of a single run has completed with zero records collected, the run
\* ends up, for good, with the notice raised exactly once, its polling interval
\* stopped and no call of downloadCSV.
C12_ZeroRecordsNoticeOnce ==
    (started = 1 /\ AllListed(listed, 1) /\ files = << >>)
        ~> [](Len(alerts) = 1 /\ alerts[1] = 1 /\ timers = {} /\ downloads = << >>)

\* C12 witness: the notice was raised after a traversal over a root and a subfolder
\* that collected no record.
C12_Witness ==
    /\ started = 1 /\ AllListed(listed, 1) /\ files = << >>
    /\ Cardinality(Folders) >= 2
    /\ Len(alerts) = 1
    /\ timers = {}


\* a mime type that begins with one of the three media prefixes
BeginsWithMediaPrefix(mimeType) ==
    \/ StrIndexOf(mimeType, "image/") = 0
    \/ StrIndexOf(mimeType, "audio/") = 0
    \/ StrIndexOf(mimeType, "video/") = 0

\* the entry of the tree with the given id
EntryOf(id) == CHOOSE e \in Entries : e.id = id

\* C13: in a single run every record was made from a non-folder entry whose mime
\* type begins with image/, audio/ or video/, and once the listing of a folder has
\* been processed each such entry of the folder has exactly one record; an entry of
\* any other mime type has none.
C13_PrefixFilter ==
    /\ \A i \in 1..Len(files) :
        /\ EntryOf(files[i][5]).mimeType # FolderMime
        /\ BeginsWithMediaPrefix(EntryOf(files[i][5]).mimeType)
    /\ \A f \in Folders :
        [run |-> 1, folder |-> f] \in listed =>
            \A k \in 1..Len(drive[f]) :
                (drive[f][k].mimeType # FolderMime
                    /\ BeginsWithMediaPrefix(drive[f][k].mimeType)) =>
                Cardinality({i \in 1..Len(files) : files[i][5] = drive[f][k].id}) = 1


\* the field holds a comma or a line feed
HasCommaOrNewline(v) == \E p \in 1..Len(v) : CharAt(v, p) \in {",", "\n"}

\* the number of double quotes among the first j characters of v
QuotesUpTo(v, j) == Cardinality({p \in 1..j : CharAt(v, p) = "\""})

\* out is v between two double quotes with every double quote of v doubled: the
\* character of position j of v stands at position 1 + j + (quotes before j) of
\* out, followed by a second double quote when it is one
IsQuotedForm(out, v) ==
    /\ Len(out) = Len(v) + QuotesUpTo(v, Len(v)) + 2
    /\ CharAt(out, 1) = "\""
    /\ CharAt(out, Len(out)) = "\""
    /\ \A j \in 1..Len(v) :
        LET p == 1 + j + QuotesUpTo(v, j - 1)
        IN  /\ CharAt(out, p) = CharAt(v, j)
            /\ CharAt(v, j) = "\"" => CharAt(out, p + 1) = "\""

\* the length of what the claim says is emitted for field v
EmittedLen(v) ==
    IF HasCommaOrNewline(v) THEN Len(v) + QuotesUpTo(v, Len(v)) + 2 ELSE Len(v)

\* the number of characters of the line before the field of position i: the
\* fields before it, each followed by the separating comma
RECURSIVE FieldOffset(_, _)
FieldOffset(array, i) ==
    IF i <= 1 THEN 0
    ELSE FieldOffset(array, i - 1) + EmittedLen(array[i - 1]) + 1

\* the part of the line that stands for the field of position i
EmittedField(line, array, i) ==
    SubSeq(line, FieldOffset(array, i) + 1, FieldOffset(array, i) + EmittedLen(array[i]))

\* C14: the line arrayToCSVLine returns for an array of strings is its fields in
\* order, separated by commas, where a field is wrapped in double quotes with every
\* double quote inside it doubled if and only if it holds a comma or a line feed,
\* and is emitted unchanged otherwise.
C14_QuotedIffCommaOrNewline ==
    csvCall.returned =>
        LET array == csvCall.array
            line == csvCall.line
            n == Len(array)
        IN  /\ Len(line) = IF n = 0 THEN 0 ELSE FieldOffset(array, n + 1) - 1
            /\ \A i \in 1..n :
                /\ i > 1 => CharAt(line, FieldOffset(array, i)) = ","
                /\ IF HasCommaOrNewline(array[i])
                   THEN IsQuotedForm(EmittedField(line, array, i), array[i])
                   ELSE EmittedField(line, array, i) = array[i]

\* C14 witness: a line was returned for an array holding a field with a double
\* quote and a comma and a field with a double quote and neither comma nor line
\* feed.
C14_Witness ==
    /\ csvCall.returned
    /\ \E i, j \in 1..Len(csvCall.array) :
        /\ HasCommaOrNewline(csvCall.array[i])
        /\ QuotesUpTo(csvCall.array[i], Len(csvCall.array[i])) > 0
        /\ ~HasCommaOrNewline(csvCall.array[j])
        /\ QuotesUpTo(csvCall.array[j], Len(csvCall.array[j])) > 0


\* the text holds, somewhere, field v between two double quotes with every double
\* quote of v doubled
HoldsQuotedForm(text, v) ==
    LET n == Len(v) + QuotesUpTo(v, Len(v)) + 2
    IN  \E p \in 1..(Len(text) - n + 1) : IsQuotedForm(SubSeq(text, p, p + n - 1), v)

\* C15: every one of the ten fields of a delivered record that holds a double
\* quote stands in the CSV text as a quoted field with that double quote doubled,
\* whether or not it also holds a comma or a line feed.
C15_QuoteBearingFieldsQuoted ==
    \A i \in 1..Len(downloads) :
        \A k \in 1..Len(downloads[i].records) :
            \A f \in 1..10 :
                LET v == downloads[i].records[k][f]
                IN  QuotesUpTo(v, Len(v)) > 0 => HoldsQuotedForm(downloads[i].content, v)


\* C16: within a run the visits of two different folders are never registered
\* with the same token, and runs never holds a value twice.
C16_TokensUnique ==
    /\ \A a, b \in registered :
        (a.run = b.run /\ a.folder # b.folder) => a.key # b.key
    /\ \A i, j \in 1..Len(runs) : i # j => runs[i] # runs[j]


\* the direct subfolders of folder f
Subfolders(f) ==
    {e.id : e \in {drive[f][k] : k \in {n \in 1..Len(drive[f]) : drive[f][n].mimeType = FolderMime}}}

\* the visit of folder f in run r has been registered with token key
Registered(r, f, key) == [run |-> r, folder |-> f, key |-> key] \in registered

\* C17: the token of a subfolder is pushed to runs before its visit starts: the
\* nested call finds its token in runs, and every visit in flight, resolved or
\* listed is a registered one. The removal for a visit happens after the visit has
\* resolved: its listing has been processed and the tokens of all its direct
\* subfolders have been registered; no removal precedes the registration of its
\* visit or finds runs empty.
C17_RegisterBeforeVisitRemoveAfter ==
    /\ \A c \in calls :
        c.cont.then = "deregister" =>
            c.cont.registeredFirst /\ Registered(c.cont.run, c.driveId, c.cont.key)
    /\ \A v \in listed :
        v.folder # form.drive_id => \E a \in registered : a.run = v.run /\ a.folder = v.folder
    /\ \A i \in 1..Len(jobs) :
        jobs[i].then = "deregister" =>
            /\ jobs[i].registeredFirst
            /\ Registered(jobs[i].run, jobs[i].folder, jobs[i].key)
            /\ [run |-> jobs[i].run, folder |-> jobs[i].folder] \in listed
    /\ \A g \in deregs :
        /\ Registered(g.run, g.folder, g.key)
        /\ [run |-> g.run, folder |-> g.folder] \in listed
        /\ \A sub \in Subfolders(g.folder) :
            \E a \in registered : a.run = g.run /\ a.folder = sub
        /\ g.before >= 1

\* C17 witness: the removal for a visit that registered a subfolder of its own has
\* happened while that subfolder's visit is still in flight.
C17_Witness ==
    \E g \in deregs :
        \E c \in calls :
            /\ c.driveId \in Subfolders(g.folder)
            /\ c.cont.run = g.run


\* the subfolder visits that have been started and whose resolution callback has
\* not run: those not resolved, and those resolved whose callback is queued
Outstanding ==
    Unresolved \cup
    {[run |-> jobs[i].run, folder |-> jobs[i].folder] :
        i \in {n \in 1..Len(jobs) : jobs[n].then = "deregister"}}

\* C18: in every state of a single run started from the empty state, whatever the
\* order of the listing responses and also when tokens collide, the length of runs
\* is the number of subfolder visits started whose resolution callback has not
\* run; every resolution callback finds runs non-empty and shortens it by exactly
\* one.
C18_LengthCountsOutstanding ==
    /\ [](Len(runs) = Cardinality(Outstanding))
    /\ [][Deregister => (Len(runs) >= 1 /\ Len(runs') = Len(runs) - 1)]_vars

\* C18 witness: two visits registered with equal tokens, one resolved and removed,
\* the other still outstanding.
C18_Witness ==
    /\ started = 1
    /\ Collision(1)
    /\ deregs # {}
    /\ Len(runs) >= 1
    /\ Cardinality(Outstanding) = Len(runs)


\* the calls of downloadCSV made for run r
DeliveriesOf(r) == {i \in 1..Len(downloads) : downloads[i].run = r}

\* the reaction of the root visit of run r has run: its interval has been set
PollingStarted(r) ==
    /\ RootListed(r)
    /\ \A j \in 1..Len(jobs) : ~(jobs[j].then = "poll" /\ jobs[j].run = r)

\* run r has made its successful drain check: a CSV or the notice was produced
Drained(r) ==
    \/ DeliveriesOf(r) # {}
    \/ \E k \in 1..Len(alerts) : alerts[k] = r

\* C19: also when a second makeCsv invocation starts before the first has
\* completed, every invocation hands a CSV to downloadCSV at most once; once it
\* has made its successful drain check its interval is no longer active, and
\* until then its interval, once set, stays active.
C19_OneDeliveryPerRun ==
    \A r \in 1..started :
        /\ Cardinality(DeliveriesOf(r)) <= 1
        /\ Drained(r) => (\A t \in timers : t.id # r)
        /\ (PollingStarted(r) /\ ~Drained(r)) => (\E t \in timers : t.id = r)


\* C20: every record, at every folder depth, carries the configured owner user ID
\* in its ownerId field (the ninth) and the configured metadata profile ID in its
\* metadataProfileId field (the tenth), and every visit, nested ones included,
\* runs with the configured owner as its ownerId and the folder path of its folder
\* as its folderPath.
C20_OwnerAndProfileEverywhere ==
    /\ \A i \in 1..Len(files) :
        /\ files[i][9] = form.owner_id
        /\ files[i][10] = form.metadata_profile_id
    /\ \A c \in calls :
        /\ c.ownerId = form.owner_id
        /\ c.metadataProfileId = form.metadata_profile_id
        /\ c.folderPath = Chain(c.driveId)

=============================================================================
